---------------------------- MODULE Spec2Model ----------------------------
(***************************************************************************)
(* A model of the slider component of src/src/index.tsx: the value         *)
(* normalizer, the value store, the thumb hit test, the gesture-to-value   *)
(* mapper and the layout measurement, as one state machine.                *)
(*                                                                         *)
(* Numbers.  A JavaScript number is modelled as a decimal fixed-point      *)
(* number: the integer k stands for k / Scale.  Four integers outside the  *)
(* range of the finite numbers stand for +Infinity, -Infinity and NaN, the *)
(* special values the code's divisions can produce, and for Inexact, the   *)
(* result of a product or quotient that has no exact representation at     *)
(* this scale.  The inputs are chosen so that no reachable state holds     *)
(* Inexact (ArithmeticExact): every number of the model is the exact real  *)
(* result.  Rounding error of binary floating point and the sign of zero   *)
(* are not modelled.                                                       *)
(*                                                                         *)
(* Indices.  JavaScript arrays are 0-based, TLA+ sequences 1-based: the    *)
(* cell of thumb index i is values[i + 1].                                 *)
(***************************************************************************)
EXTENDS Integers, Sequences, FiniteSets, TLC

-----------------------------------------------------------------------------
(* JavaScript number arithmetic *)

\* the fixed-point scale: three decimals
Scale == 10 * 10 * 10

PInf == Scale * Scale * Scale

NInf == -PInf

NaN == 2 * PInf

Inexact == 2 * PInf + 1

\* the number i
R(i) == i * Scale

\* the number n / d, for integers n and d with d dividing n * Scale
Q(n, d) == (n * Scale) \div d

IsNaN(x) == x >= NaN

IsInf(x) == x = PInf \/ x = NInf

IsFinite(x) == NInf < x /\ x < PInf

Sign(i) == IF i > 0 THEN 1 ELSE IF i < 0 THEN -1 ELSE 0

\* NaN, or Inexact where an operand is inexact
Undefined(x, y) == IF x = Inexact \/ y = Inexact THEN Inexact ELSE NaN

Neg(x) == IF IsNaN(x) THEN x ELSE -x

Add(x, y) ==
    IF IsNaN(x) \/ IsNaN(y) THEN Undefined(x, y)
    ELSE IF IsInf(x) THEN (IF IsInf(y) /\ x # y THEN NaN ELSE x)
    ELSE IF IsInf(y) THEN y
    ELSE x + y

Sub(x, y) == Add(x, Neg(y))

Mul(x, y) ==
    IF IsNaN(x) \/ IsNaN(y) THEN Undefined(x, y)
    ELSE IF IsInf(x) \/ IsInf(y)
         THEN (IF x = 0 \/ y = 0 THEN NaN ELSE Sign(x) * Sign(y) * PInf)
    ELSE IF (x * y) % Scale = 0 THEN (x * y) \div Scale
    ELSE Inexact

\* x / y; a zero divisor counts as +0
Div(x, y) ==
    IF IsNaN(x) \/ IsNaN(y) THEN Undefined(x, y)
    ELSE IF IsInf(x) THEN (IF IsInf(y) THEN NaN ELSE IF y < 0 THEN -x ELSE x)
    ELSE IF IsInf(y) THEN 0
    ELSE IF y = 0 THEN (IF x = 0 THEN NaN ELSE Sign(x) * PInf)
    ELSE LET n == Sign(y) * x * Scale
             d == Sign(y) * y
         IN  IF n % d = 0 THEN n \div d ELSE Inexact

\* x < y as JavaScript evaluates it: false when either side is NaN
Lt(x, y) == ~IsNaN(x) /\ ~IsNaN(y) /\ x < y

Gt(x, y) == Lt(y, x)

Le(x, y) == ~IsNaN(x) /\ ~IsNaN(y) /\ x <= y

Ge(x, y) == Le(y, x)

\* x !== y on numbers: NaN differs from every number, itself included
StrictNotEqual(x, y) == IsNaN(x) \/ IsNaN(y) \/ x # y

\* Math.max and Math.min: NaN when either argument is NaN
MathMax(x, y) ==
    IF IsNaN(x) \/ IsNaN(y) THEN Undefined(x, y) ELSE IF x < y THEN y ELSE x

MathMin(x, y) ==
    IF IsNaN(x) \/ IsNaN(y) THEN Undefined(x, y) ELSE IF y < x THEN y ELSE x

\* Math.floor in the place of Math.round
MathFloor(x) ==
    IF ~IsFinite(x) THEN x ELSE (x \div Scale) * Scale

\* Math.round: the nearest integer, halves rounded towards +Infinity
MathRound(x) ==
    IF ~IsFinite(x) THEN x ELSE ((2 * x + Scale) \div (2 * Scale)) * Scale

\* JavaScript truthiness of a number: 0 and NaN are falsy
Truthy(x) == ~IsNaN(x) /\ x # 0

-----------------------------------------------------------------------------
(* Inputs: raw external values, layout sizes, touch events *)

\* a raw value as the owning application passes it: absent, a number or an array
Absent == [kind |-> "absent", elems |-> << >>]

Scalar(i) == [kind |-> "scalar", elems |-> <<R(i)>>]

Arr(s) == [kind |-> "array", elems |-> [k \in 1..Len(s) |-> R(s[k])]]

\* the values the owning application passes as the value prop (defaultProps
\* makes an omitted value prop the number 0)
ValueInputs ==
    { Scalar(0), Scalar(50), Scalar(150),
      Arr(<<50>>), Arr(<<100, 0>>), Arr(<<0, 0>>), Arr(<<50, 120, 0>>) }

\* the value prop of one configuration: arrays of at most two elements without
\* dualSlider, so that the store holds at most two thumbs
ValueInputsFor(dual) ==
    { v \in ValueInputs : dual \/ Len(v.elems) <= 2 }

\* the track marks the owning application configures, and those it changes
\* them to
TrackMarks == Arr(<<25, 75>>)

TrackMarkInputs == { TrackMarks, Arr(<<50>>) }

NoTouchSize == [present |-> FALSE, width |-> 0, height |-> 0]

TouchSize(w, h) == [present |-> TRUE, width |-> w, height |-> h]

\* the sizes the layout callbacks report
ContainerSizes == { [width |-> 120, height |-> 40] }

ThumbSizes == { [width |-> 20, height |-> 20] }

TrackSizes == { [width |-> 120, height |-> 4] }

\* touch starts (nativeEvent.locationX, locationY)
TouchEvents ==
    { [x |-> 20, y |-> 20], [x |-> 70, y |-> 20], [x |-> 120, y |-> 20],
      [x |-> 70, y |-> 90] }

\* drags (gestureState.dx, dy) along either axis
Deltas == { -50, 0, 50 }

GestureStates ==
    { [dx |-> d, dy |-> 0] : d \in Deltas } \cup { [dx |-> 0, dy |-> d] : d \in Deltas }

-----------------------------------------------------------------------------
(* Geometry/Rect *)

Rect(height, width, x, y) == [height |-> height, width |-> width, x |-> x, y |-> y]

containsPoint(rect, nativeX, nativeY) ==
    /\ Ge(nativeX, rect.x)
    /\ Ge(nativeY, rect.y)
    /\ Le(nativeX, Add(rect.x, rect.width))
    /\ Le(nativeY, Add(rect.y, rect.height))

trackDistanceToPoint(rect, nativeX) ==
    IF Lt(nativeX, rect.x) THEN Sub(rect.x, nativeX)
    ELSE IF Gt(nativeX, Add(rect.x, rect.width))
         THEN Sub(nativeX, Add(rect.x, rect.width))
    ELSE R(0)

-----------------------------------------------------------------------------
(* Value Normalizer *)

\* a sort that leaves the elements in the order given
KeepOrder(s) == s

\* Array.prototype.sort((a, b) => a - b) on a copy: ascending insertion sort
RECURSIVE SortAscending(_)
SortAscending(s) ==
    IF Len(s) <= 1 THEN s
    ELSE LET rest == SortAscending(Tail(s))
             k == Cardinality({ j \in 1..Len(rest) : Lt(rest[j], Head(s)) })
         IN  SubSeq(rest, 1, k) \o <<Head(s)>> \o SubSeq(rest, k + 1, Len(rest))

getBetweenValue(props, inputValue) ==
    MathMax(MathMin(inputValue, props.maximumValue), props.minimumValue)

\* !value || (Array.isArray(value) && value.length === 0)
IsEmptyValue(value) ==
    \/ value.kind = "absent"
    \/ value.kind = "scalar" /\ ~Truthy(value.elems[1])
    \/ value.kind = "array" /\ Len(value.elems) = 0

\* a window around the single value that is not clamped to the bounds
DualWindowUnclamped(props, singleValue) ==
    LET range == Mul(Sub(props.maximumValue, props.minimumValue), Q(1, 10))
    IN  << Sub(singleValue, range), Add(singleValue, range) >>

\* dual slider mode, one value provided: a range around it
DualWindow(props, singleValue) ==
    LET range == Mul(Sub(props.maximumValue, props.minimumValue), Q(1, 10))
    IN  << MathMax(Sub(singleValue, range), props.minimumValue),
           MathMin(Add(singleValue, range), props.maximumValue) >>

\* a pair that is returned in the order given
DualPairAsGiven(props, val1, val2) == <<val1, val2>>

\* a pair that is returned in ascending order
DualPairAscending(props, val1, val2) ==
    IF Gt(val1, val2) THEN <<val2, val1>> ELSE <<val1, val2>>

\* dual slider mode, two or more values provided: the first two, swapped when
\* crossover is not allowed and the first exceeds the second
DualPair(props, val1, val2) ==
    IF ~props.allowCrossover /\ Gt(val1, val2)
    THEN <<val2, val1>>
    ELSE <<val1, val2>>

\* a result for an empty value that is [0] in dual slider mode too
EmptyValueSingle(props) == <<R(0)>>

\* no value, a falsy one or an empty array: the whole range in dual slider
\* mode, and [0] otherwise
EmptyValue(props) ==
    IF props.dualSlider
    THEN <<props.minimumValue, props.maximumValue>>
    ELSE <<R(0)>>

normalizeValue(props, value) ==
    IF IsEmptyValue(value)
    THEN EmptyValue(props)
    ELSE IF value.kind = "scalar"
    THEN <<getBetweenValue(props, value.elems[1])>>
    ELSE LET normalizedValues ==
                 [k \in 1..Len(value.elems) |-> getBetweenValue(props, value.elems[k])]
         IN  IF props.dualSlider /\ Len(normalizedValues) = 1
             THEN DualWindow(props, normalizedValues[1])
             ELSE IF props.dualSlider /\ Len(normalizedValues) >= 2
             THEN DualPair(props, normalizedValues[1], normalizedValues[2])
             ELSE SortAscending(normalizedValues)

\* a normalizeValue that sorts the array it is given
valueSortedInPlace(props, value) ==
    IF value.kind = "array" THEN [value EXCEPT !.elems = SortAscending(@)] ELSE value

\* the value passed to normalizeValue, once it has returned: map and slice
\* make new arrays and sort works on normalizedValues, so that no statement
\* writes to value
valueAfterNormalize(props, value) == value

-----------------------------------------------------------------------------
(* Value Store *)

\* An element of the arrays updateValues takes and returns: the object it is
\* and the number it holds.  The object is the Animated.Value the store held at
\* an index before the call, an Animated.Value the call creates, or no object
\* at all when the element is a plain number.
Cell(object, value) == [value |-> value, object |-> object]

\* the Animated.Value the store holds at index k - 1 when updateValues is called
Held(k) == [kind |-> "held", at |-> k]

\* an object made by new Animated.Value(...)
Created == [kind |-> "created", at |-> 0]

\* a plain number
Plain == [kind |-> "number", at |-> 0]

\* value instanceof Animated.Value
IsAnimatedValue(cell) == cell.object.kind # "number"

\* the cells of a store that holds the numbers vals
Cells(vals) == [k \in 1..Len(vals) |-> Cell(Held(k), vals[k])]

\* an array of the plain numbers vals
Numbers(vals) == [k \in 1..Len(vals) |-> Cell(Plain, vals[k])]

\* the numbers the cells hold (the store as _getRawValues reads it)
Contents(cells) == [k \in 1..Len(cells) |-> cells[k].value]

\* an updateValues that makes a new Animated.Value for every element
updateValuesAllCreated(values, newValues) ==
    [k \in 1..Len(newValues) |-> Cell(Created, newValues[k].value)]

\* an updateValues that drops no cell: given fewer new values than cells, it
\* returns the cells
updateValuesNeverShorter(values, newValues) ==
    IF Len(newValues) < Len(values)
    THEN values
    ELSE updateValuesAllCreated(values, newValues)

\* updateValues: with arrays of different lengths it calls itself on newValues
\* alone (newValues defaults to values); with equal lengths an Animated.Value
\* is set to the new number and returned, and a plain number is replaced by
\* the new element, wrapped in a new Animated.Value when that is a number.
updateValues(values, newValues) ==
    LET reconciled(vs, ns) ==
            [k \in 1..Len(vs) |->
                LET value == vs[k]
                    valueToSet == ns[k]
                IN  IF IsAnimatedValue(value)
                    THEN Cell(value.object, valueToSet.value)
                    ELSE IF IsAnimatedValue(valueToSet) THEN valueToSet
                    ELSE Cell(Created, valueToSet.value)]
    IN  IF Len(newValues) # Len(values)
        THEN reconciled(newValues, newValues)
        ELSE reconciled(values, newValues)

\* an index of the lowest element that takes the last of equal elements
indexOfLowestLast(values) ==
    LET RECURSIVE scan(_, _)
        scan(k, lowestIndex) ==
            IF k > Len(values) THEN lowestIndex
            ELSE scan(k + 1, IF Le(values[k], values[lowestIndex]) THEN k ELSE lowestIndex)
    IN  scan(1, 1) - 1

indexOfLowest(values) ==
    LET RECURSIVE scan(_, _)
        scan(k, lowestIndex) ==
            IF k > Len(values) THEN lowestIndex
            ELSE scan(k + 1, IF Lt(values[k], values[lowestIndex]) THEN k ELSE lowestIndex)
    IN  scan(1, 1) - 1

-----------------------------------------------------------------------------
(* The Slider component *)

VARIABLES
    props,              \* this.props: the configuration and the value prop
    isRTL,              \* I18nManager.isRTL
    allMeasured,        \* this.state.allMeasured
    containerSize,      \* this.state.containerSize
    thumbSize,          \* this.state.thumbSize
    values,             \* this.state.values: the number held by each cell
    trackMarksValues,   \* this.state.trackMarksValues: the number held by each cell
    activeThumbIndex,   \* this._activeThumbIndex
    previousLeft,       \* this._previousLeft
    instContainerSize,  \* this._containerSize
    instThumbSize,      \* this._thumbSize
    instTrackSize,      \* this._trackSize
    phase,              \* the responder's position: "idle", "start" or "active"
    touch,              \* the touch-start event between the hit test and the grant
    hitIndex,           \* history: the index the hit test chose for the gesture in progress
    emitted,            \* history: the notifications of the last handler, in order
    order,              \* history: how far the gesture's notifications have come
    last,               \* history: the last handler that ran
    animated,           \* history: the thumb indices whose write the last handler animated
    applied             \* a function applied on its own: its name, arguments and result

\* the variables no gesture handler, update or layout callback of the
\* container and the thumb touches
aside == << instTrackSize, applied >>

vars == << props, isRTL, allMeasured, containerSize, thumbSize, values, trackMarksValues,
           activeThumbIndex, previousLeft, instContainerSize, instThumbSize,
           instTrackSize, phase, touch, hitIndex, emitted, order, last,
           animated, applied >>

\* a size field that no layout callback has set yet (undefined)
NoSize == [known |-> FALSE, width |-> 0, height |-> 0]

KnownSize(size) == [known |-> TRUE, width |-> size.width, height |-> size.height]

NoTouch == [x |-> 0, y |-> 0]

_getRawValues(vals) == vals

Notification(name, vals, index) ==
    [name |-> name, values |-> _getRawValues(vals), index |-> index]

_getRatio(value) ==
    Div(Sub(value, props.minimumValue), Sub(props.maximumValue, props.minimumValue))

_getThumbLeft(value) ==
    LET standardRatio == _getRatio(value)
        ratio == IF isRTL THEN Sub(R(1), standardRatio) ELSE standardRatio
    IN  Mul(ratio,
            Sub(R(IF props.vertical THEN containerSize.height ELSE containerSize.width),
                R(thumbSize.width)))

_getCurrentValue(thumbIndex) == values[thumbIndex + 1]

\* step ? step : 0.1
Buffer == IF Truthy(props.step) THEN props.step ELSE Q(1, 10)

\* _getValue, lines 462-474: the value of a ratio of the track on a slider
\* with a step, within the thumb's range [minValue, maxValue]
SteppedValue(p, ratio, minValue, maxValue) ==
    MathMax(minValue,
        MathMin(maxValue,
            Add(p.minimumValue,
                Mul(MathRound(Div(Mul(ratio, Sub(p.maximumValue, p.minimumValue)), p.step)),
                    p.step))))

_getValue(gestureState) ==
    LET length == Sub(R(containerSize.width), R(thumbSize.width))
        thumbLeft == IF props.vertical
                     THEN Add(previousLeft, Mul(R(gestureState.dy), R(-1)))
                     ELSE Add(previousLeft, R(gestureState.dx))
        nonRtlRatio == Div(thumbLeft, length)
        ratio == IF isRTL THEN Sub(R(1), nonRtlRatio) ELSE nonRtlRatio
        rawValues == _getRawValues(values)
        guarded == Len(values) = 2 /\ ~props.allowCrossover
        minValue == IF guarded /\ activeThumbIndex = 1
                    THEN Add(rawValues[1], Buffer)
                    ELSE props.minimumValue
        maxValue == IF guarded /\ activeThumbIndex # 1
                    THEN Sub(rawValues[2], Buffer)
                    ELSE props.maximumValue
        span == Sub(props.maximumValue, props.minimumValue)
    IN  IF Truthy(props.step)
        THEN SteppedValue(props, ratio, minValue, maxValue)
        ELSE MathMax(minValue,
                 MathMin(maxValue, Add(Mul(ratio, span), props.minimumValue)))

\* _setCurrentValue, lines 495-511: the value written to the store vals at
\* safeIndex after the dual slider crossover logic
CrossoverValue(vals, value, safeIndex) ==
    IF props.dualSlider /\ Len(vals) >= 2
    THEN LET otherIndex == IF safeIndex = 0 THEN 1 ELSE 0
             held == vals[otherIndex + 1]
             otherValue == IF Truthy(held) THEN held ELSE R(0)
         IN  IF ~props.allowCrossover
                /\ \/ safeIndex = 0 /\ Gt(value, otherValue)
                   \/ safeIndex = 1 /\ Lt(value, otherValue)
             THEN otherValue
             ELSE value
    ELSE value

\* a write that sets every cell of the store to the value
_setCurrentValueEvery(vals, value, thumbIndex) ==
    [k \in 1..Len(vals) |-> value]

\* whether this.state.values[safeIndex] is a cell
HasCell(safeIndex) == safeIndex + 1 <= Len(values)

\* _setCurrentValue on the store vals: the store after the write.  An existing
\* cell is set in place; with no cell at safeIndex (one past the end of the
\* store, the only absent index a two-thumb store can be asked for) the state
\* update appends a new cell.
_setCurrentValue(vals, value, thumbIndex) ==
    LET safeIndex == thumbIndex
        written == CrossoverValue(vals, value, safeIndex)
    IN  IF safeIndex + 1 <= Len(vals)
        THEN [vals EXCEPT ![safeIndex + 1] = written]
        ELSE Append(vals, written)

_getTouchOverflowSize ==
    IF allMeasured
    THEN [ width  |-> MathMax(R(0),
                         IF props.thumbTouchSize.present /\ props.thumbTouchSize.width # 0
                         THEN R(props.thumbTouchSize.width)
                         ELSE Add(R(0), R(thumbSize.width))),
           height |-> MathMax(R(0),
                         IF props.thumbTouchSize.present /\ props.thumbTouchSize.height # 0
                         THEN R(props.thumbTouchSize.height)
                         ELSE Sub(R(0), R(containerSize.height))) ]
    ELSE [width |-> R(40), height |-> R(40)]

_getThumbTouchRect(thumbIndex) ==
    LET height == IF props.thumbTouchSize.present THEN props.thumbTouchSize.height ELSE 40
        width == IF props.thumbTouchSize.present THEN props.thumbTouchSize.width ELSE 40
        touchOverflowSize == _getTouchOverflowSize
    IN  Rect(R(height), R(width),
             Add(Add(Div(touchOverflowSize.width, R(2)),
                     _getThumbLeft(_getCurrentValue(thumbIndex))),
                 Div(Sub(R(thumbSize.width), R(width)), R(2))),
             Add(Div(touchOverflowSize.height, R(2)),
                 Div(Sub(R(containerSize.height), R(height)), R(2))))

\* a hit test that makes thumb 0 the active one when it reports no hit
_thumbHitTestReset(e) ==
    LET hits == { i \in 0..(Len(values) - 1) :
                    containsPoint(_getThumbTouchRect(i), R(e.x), R(e.y)) }
        thumbDistances == [k \in 1..Len(values) |->
                             trackDistanceToPoint(_getThumbTouchRect(k - 1), R(e.x))]
    IN  IF hits # {}
        THEN [hit |-> TRUE, index |-> CHOOSE i \in hits : \A j \in hits : i <= j]
        ELSE IF props.trackClickable
        THEN [hit |-> TRUE,
              index |-> IF Len(values) = 1 THEN 0 ELSE indexOfLowest(thumbDistances)]
        ELSE [hit |-> FALSE, index |-> 0]

\* a hit test that keeps the last thumb whose touch rectangle holds the point
_thumbHitTestLast(e) ==
    LET hits == { i \in 0..(Len(values) - 1) :
                    containsPoint(_getThumbTouchRect(i), R(e.x), R(e.y)) }
        thumbDistances == [k \in 1..Len(values) |->
                             trackDistanceToPoint(_getThumbTouchRect(k - 1), R(e.x))]
    IN  IF hits # {}
        THEN [hit |-> TRUE, index |-> CHOOSE i \in hits : \A j \in hits : i >= j]
        ELSE IF props.trackClickable
        THEN [hit |-> TRUE,
              index |-> IF Len(values) = 1 THEN 0 ELSE indexOfLowest(thumbDistances)]
        ELSE [hit |-> FALSE, index |-> activeThumbIndex]

\* _thumbHitTest: whether the touch starts a gesture, and the active index after it
_thumbHitTest(e) ==
    LET hits == { i \in 0..(Len(values) - 1) :
                    containsPoint(_getThumbTouchRect(i), R(e.x), R(e.y)) }
        thumbDistances == [k \in 1..Len(values) |->
                             trackDistanceToPoint(_getThumbTouchRect(k - 1), R(e.x))]
    IN  IF hits # {}
        THEN [hit |-> TRUE, index |-> CHOOSE i \in hits : \A j \in hits : i <= j]
        ELSE IF props.trackClickable
        THEN [hit |-> TRUE,
              index |-> IF Len(values) = 1 THEN 0 ELSE indexOfLowest(thumbDistances)]
        ELSE [hit |-> FALSE, index |-> activeThumbIndex]

\* getDerivedStateFromProps, which runs before every render: the track mark
\* cells for the props p, from the cells marks (props.trackMarks is an array,
\* which is truthy)
getDerivedStateFromProps(p, marks) ==
    IF Len(marks) > 0
    THEN Contents(updateValues(Cells(marks), Numbers(normalizeValue(p, p.trackMarks))))
    ELSE marks

-----------------------------------------------------------------------------
(* The order of a gesture's notifications, followed as they are emitted:    *)
(* "none" before onSlidingStart, "started" after it, "changed" after an     *)
(* onValueChange, "completed" after onSlidingComplete, and "broken" once a  *)
(* notification came out of that order.                                     *)

Follow(o, name) ==
    IF o = "none"
    THEN (IF name = "onSlidingStart" THEN "started" ELSE "broken")
    ELSE IF o \in {"started", "changed"}
    THEN (IF name = "onValueChange" THEN "changed"
          ELSE IF name = "onSlidingComplete" THEN "completed"
          ELSE "broken")
    ELSE "broken"

RECURSIVE FollowAll(_, _)
FollowAll(o, notifications) ==
    IF notifications = << >> THEN o
    ELSE FollowAll(Follow(o, Head(notifications).name), Tail(notifications))

-----------------------------------------------------------------------------
(* Construction *)

\* props: a configuration (defaults included) and the value prop
Props(min, max, step, vertical, dualSlider, allowCrossover, trackClickable, disabled, thumbTouchSize, animateTransitions, trackMarks, value) ==
    [ minimumValue   |-> R(min),
      maximumValue   |-> R(max),
      step           |-> R(step),
      vertical       |-> vertical,
      dualSlider     |-> dualSlider,
      allowCrossover |-> allowCrossover,
      trackClickable |-> trackClickable,
      disabled       |-> disabled,
      thumbTouchSize |-> thumbTouchSize,
      animateTransitions |-> animateTransitions,
      trackMarks     |-> trackMarks,
      value          |-> value ]

\* no function is applied on its own
NotApplied == [name |-> "none", args |-> << >>, result |-> << >>]

\* the state the constructor leaves, for given props
Constructed(p, rtl) ==
    /\ props = p
    /\ isRTL = rtl
    /\ allMeasured = FALSE
    /\ containerSize = [width |-> 0, height |-> 0]
    /\ thumbSize = [width |-> 0, height |-> 0]
    /\ values = LET normalized == Numbers(normalizeValue(p, p.value))
                IN  Contents(updateValues(normalized, normalized))
    /\ trackMarksValues = LET normalized == Numbers(normalizeValue(p, p.trackMarks))
                          IN  Contents(updateValues(normalized, normalized))
    /\ activeThumbIndex = 0
    /\ previousLeft = R(0)
    /\ instContainerSize = NoSize
    /\ instThumbSize = NoSize
    /\ instTrackSize = NoSize
    /\ animated = {}
    /\ applied = NotApplied
    /\ phase = "idle"
    /\ touch = NoTouch
    /\ hitIndex = 0
    /\ emitted = << >>
    /\ order = "none"
    /\ last = "constructor"

\* a left-to-right, horizontal slider over [0, 100] with the default touch
\* size, in every mode: continuous or stepped, one thumb or two, crossover
\* allowed or not, track clickable or not, enabled or disabled
Init ==
    \E step \in {0, 20}, dualSlider \in BOOLEAN, allowCrossover \in BOOLEAN,
       trackClickable \in BOOLEAN, disabled \in BOOLEAN :
        \E value \in ValueInputsFor(dualSlider) :
            Constructed(Props(0, 100, step, FALSE, dualSlider, allowCrossover,
                              trackClickable, disabled, NoTouchSize, FALSE, TrackMarks, value),
                        FALSE)

-----------------------------------------------------------------------------
(* Gesture handlers *)

\* onStartShouldSetPanResponder: the hit test of a touch start
HandleStartShouldSetPanResponder(e) ==
    /\ phase = "idle"
    /\ LET result == _thumbHitTest(e)
       IN  /\ activeThumbIndex' = result.index
           /\ IF result.hit
              THEN /\ phase' = "start"
                   /\ touch' = e
                   /\ hitIndex' = result.index
                   /\ order' = "none"
                   /\ last' = "hit"
              ELSE /\ last' = "miss"
                   /\ UNCHANGED << phase, touch, hitIndex, order >>
    /\ emitted' = << >>
    /\ animated' = {}
    /\ UNCHANGED aside
    /\ UNCHANGED << props, isRTL, allMeasured, containerSize, thumbSize, values,
                    trackMarksValues, previousLeft, instContainerSize, instThumbSize >>

\* onPanResponderGrant, delivered with the touch start the hit test accepted
HandlePanResponderGrant ==
    /\ phase = "start"
    /\ LET anchor == IF props.trackClickable
                     THEN Sub(R(touch.x), R(thumbSize.width))
                     ELSE _getThumbLeft(_getCurrentValue(activeThumbIndex))
       IN  previousLeft' =
               IF props.thumbTouchSize.present
               THEN Sub(anchor,
                        Div(Sub(R(props.thumbTouchSize.width), R(thumbSize.width)), R(2)))
               ELSE anchor
    /\ emitted' = << Notification("onSlidingStart", values, activeThumbIndex) >>
    /\ order' = FollowAll(order, emitted')
    /\ phase' = "active"
    /\ touch' = NoTouch
    /\ last' = "grant"
    /\ animated' = {}
    /\ UNCHANGED aside
    /\ UNCHANGED << props, isRTL, allMeasured, containerSize, thumbSize, values,
                    trackMarksValues, activeThumbIndex, instContainerSize, instThumbSize,
                    hitIndex >>

\* the track mark cells after a handler: derived from the props again when
\* the handler updated the state, which renders the component, and left
\* alone when it did not
Rendered(stateUpdated, marks) ==
    IF stateUpdated THEN getDerivedStateFromProps(props, marks) ELSE marks

\* a handler that returns early under no condition
NeverReturnsEarly == FALSE

\* if (this.props.disabled) return, at the head of _handlePanResponderMove
MoveReturnsEarly == props.disabled

\* if (this.props.disabled) return, at the head of _handlePanResponderEnd
EndReturnsEarly == props.disabled

\* the callback _handlePanResponderMove passes to _setCurrentValue
MoveCallback(vals, index) == << Notification("onValueChange", vals, index) >>

\* onPanResponderMove.  The callback runs once the value is written: inside
\* _setCurrentValue, or after the state update that adds the cell.
HandlePanResponderMove(gestureState) ==
    /\ phase = "active"
    /\ last' = "move"
    /\ IF MoveReturnsEarly
       THEN /\ emitted' = << >>
            /\ UNCHANGED << values, trackMarksValues, order >>
       ELSE /\ values' = _setCurrentValue(values, _getValue(gestureState), activeThumbIndex)
            /\ trackMarksValues' = Rendered(~HasCell(activeThumbIndex), trackMarksValues)
            /\ emitted' = MoveCallback(values', activeThumbIndex)
            /\ order' = FollowAll(order, emitted')
    /\ animated' = {}
    /\ UNCHANGED aside
    /\ UNCHANGED << props, isRTL, allMeasured, containerSize, thumbSize,
                    activeThumbIndex, previousLeft, instContainerSize, instThumbSize,
                    phase, touch, hitIndex >>

\* an end callback that makes its two notifications in the opposite order
EndCallbackCompleteFirst(vals, index) ==
    << Notification("onSlidingComplete", vals, index) >>
    \o (IF props.trackClickable
        THEN << Notification("onValueChange", vals, index) >>
        ELSE << >>)

\* an end callback that notifies of the value change whatever trackClickable is
EndCallbackAlwaysChange(vals, index) ==
    << Notification("onValueChange", vals, index),
       Notification("onSlidingComplete", vals, index) >>

\* the callback _handlePanResponderEnd passes to _setCurrentValue
EndCallback(vals, index) ==
    (IF props.trackClickable
     THEN << Notification("onValueChange", vals, index) >>
     ELSE << >>)
    \o << Notification("onSlidingComplete", vals, index) >>

\* _handlePanResponderEnd.  With a cell at the active index the callback runs
\* inside _setCurrentValue, before the index is reset; with none it is the
\* callback of a state update, which runs once the handler has returned and
\* the index is 0 already.
HandlePanResponderEnd(gestureState) ==
    /\ phase = "active"
    /\ phase' = "idle"
    /\ hitIndex' = 0
    /\ last' = "end"
    /\ IF EndReturnsEarly
       THEN /\ emitted' = << >>
            /\ UNCHANGED << values, trackMarksValues, order, activeThumbIndex >>
       ELSE /\ values' = _setCurrentValue(values, _getValue(gestureState), activeThumbIndex)
            /\ trackMarksValues' = Rendered(~HasCell(activeThumbIndex), trackMarksValues)
            /\ activeThumbIndex' = 0
            /\ emitted' = EndCallback(values',
                              IF HasCell(activeThumbIndex)
                              THEN activeThumbIndex ELSE activeThumbIndex')
            /\ order' = FollowAll(order, emitted')
    /\ animated' = {}
    /\ UNCHANGED aside
    /\ UNCHANGED << props, isRTL, allMeasured, containerSize, thumbSize,
                    previousLeft, instContainerSize, instThumbSize, touch >>

\* onPanResponderRelease
Release(gestureState) == HandlePanResponderEnd(gestureState)

\* onPanResponderTerminate
Terminate(gestureState) == HandlePanResponderEnd(gestureState)

-----------------------------------------------------------------------------
(* External value updates *)

\* this.props.value !== prevProps.value: numbers compare by value, and an
\* array the owning application passes is a new array
ValueChanged(value, prevValue) ==
    ~ \/ value.kind = "absent" /\ prevValue.kind = "absent"
      \/ /\ value.kind = "scalar"
         /\ prevValue.kind = "scalar"
         /\ ~StrictNotEqual(value.elems[1], prevValue.elems[1])

\* _setCurrentValueAnimated on the store: an animation of the cell at
\* thumbIndex towards value is started, and the cell holds what it held
_setCurrentValueAnimated(store, value, thumbIndex) ==
    [store EXCEPT !.animated = @ \cup {thumbIndex}]

\* the callback of componentDidUpdate's state update, from index i on: a new
\* value that differs from the one its cell holds is animated when
\* animateTransitions is set, and written through _setCurrentValue otherwise
RECURSIVE WriteEach(_, _, _)
WriteEach(store, newValues, i) ==
    IF i >= Len(newValues) THEN store
    ELSE LET value == newValues[i + 1]
             currentValue == store.values[i + 1]
             written ==
                 IF StrictNotEqual(value, currentValue) /\ props.animateTransitions
                 THEN _setCurrentValueAnimated(store, value, i)
                 ELSE [store EXCEPT !.values = _setCurrentValue(@, value, i)]
         IN  WriteEach(written, newValues, i + 1)

\* componentDidUpdate after the owning application changed the value prop
ComponentDidUpdate(value) ==
    /\ phase # "start"
    /\ ValueChanged(value, props.value)
    /\ props' = [props EXCEPT !.value = value]
    /\ \E newValues \in {normalizeValue(props', props'.value)} :
         \E reconciled \in {Contents(updateValues(Cells(values), Numbers(newValues)))} :
           \E store \in {WriteEach([values |-> reconciled, animated |-> {}], newValues, 0)} :
              /\ values' = store.values
              /\ animated' = store.animated
    /\ trackMarksValues' = getDerivedStateFromProps(props', trackMarksValues)
    /\ emitted' = << >>
    /\ last' = "update"
    /\ UNCHANGED aside
    /\ UNCHANGED << isRTL, allMeasured, containerSize, thumbSize, activeThumbIndex,
                    previousLeft, instContainerSize, instThumbSize, phase, touch,
                    hitIndex, order >>

\* componentDidUpdate after the owning application changed the trackMarks
\* prop (a new array): the track mark cells are derived before the render
\* and reconciled again by the state update, which renders once more
TrackMarksDidUpdate(trackMarks) ==
    /\ phase # "start"
    /\ props' = [props EXCEPT !.trackMarks = trackMarks]
    /\ \E newTrackMarksValues \in {normalizeValue(props', props'.trackMarks)} :
         \E derived \in {getDerivedStateFromProps(props', trackMarksValues)} :
           \E updated \in {Contents(updateValues(Cells(derived),
                                                 Numbers(newTrackMarksValues)))} :
              trackMarksValues' = getDerivedStateFromProps(props', updated)
    /\ emitted' = << >>
    /\ last' = "marks"
    /\ animated' = {}
    /\ UNCHANGED aside
    /\ UNCHANGED << isRTL, allMeasured, containerSize, thumbSize, values,
                    activeThumbIndex, previousLeft, instContainerSize, instThumbSize,
                    phase, touch, hitIndex, order >>

-----------------------------------------------------------------------------
(* Layout measurement *)

SameSize(currentSize, size) ==
    currentSize.known /\ size.width = currentSize.width /\ size.height = currentSize.height

\* a measurement that takes one reported size for both
EitherMeasured(container, thumb) == container.known \/ thumb.known

\* this._containerSize && this._thumbSize
BothMeasured(container, thumb) == container.known /\ thumb.known

\* _handleMeasure for '_containerSize'
MeasureContainer(size) ==
    /\ phase # "start"
    /\ ~SameSize(instContainerSize, size)
    /\ instContainerSize' = KnownSize(size)
    /\ IF BothMeasured(instContainerSize', instThumbSize)
       THEN /\ containerSize' = [width |-> size.width, height |-> size.height]
            /\ thumbSize' = [width |-> instThumbSize.width, height |-> instThumbSize.height]
            /\ allMeasured' = TRUE
            /\ trackMarksValues' = Rendered(TRUE, trackMarksValues)
       ELSE UNCHANGED << containerSize, thumbSize, allMeasured, trackMarksValues >>
    /\ emitted' = << >>
    /\ last' = "measure"
    /\ animated' = {}
    /\ UNCHANGED aside
    /\ UNCHANGED << props, isRTL, values, activeThumbIndex, previousLeft, instThumbSize,
                    phase, touch, hitIndex, order >>

\* _handleMeasure for '_thumbSize'
MeasureThumb(size) ==
    /\ phase # "start"
    /\ ~SameSize(instThumbSize, size)
    /\ instThumbSize' = KnownSize(size)
    /\ IF BothMeasured(instContainerSize, instThumbSize')
       THEN /\ containerSize' = [width |-> instContainerSize.width,
                                 height |-> instContainerSize.height]
            /\ thumbSize' = [width |-> size.width, height |-> size.height]
            /\ allMeasured' = TRUE
            /\ trackMarksValues' = Rendered(TRUE, trackMarksValues)
       ELSE UNCHANGED << containerSize, thumbSize, allMeasured, trackMarksValues >>
    /\ emitted' = << >>
    /\ last' = "measure"
    /\ animated' = {}
    /\ UNCHANGED aside
    /\ UNCHANGED << props, isRTL, values, activeThumbIndex, previousLeft,
                    instContainerSize, phase, touch, hitIndex, order >>

\* _handleMeasure for '_trackSize'
MeasureTrack(size) ==
    /\ phase # "start"
    /\ ~SameSize(instTrackSize, size)
    /\ instTrackSize' = KnownSize(size)
    /\ IF BothMeasured(instContainerSize, instThumbSize)
       THEN /\ containerSize' = [width |-> instContainerSize.width,
                                 height |-> instContainerSize.height]
            /\ thumbSize' = [width |-> instThumbSize.width, height |-> instThumbSize.height]
            /\ allMeasured' = TRUE
            /\ trackMarksValues' = Rendered(TRUE, trackMarksValues)
       ELSE UNCHANGED << containerSize, thumbSize, allMeasured, trackMarksValues >>
    /\ emitted' = << >>
    /\ last' = "measure"
    /\ animated' = {}
    /\ UNCHANGED << props, isRTL, values, activeThumbIndex, previousLeft,
                    instContainerSize, instThumbSize, phase, touch, hitIndex, order,
                    applied >>

\* render: the style every positioned element spreads into its own (the
\* minimum, range and unselected tracks, the track marks, the thumbs and the
\* components above and below them); opacity 1 stands for no opacity entry
valueVisibleStyle == [opacity |-> IF ~allMeasured THEN 0 ELSE 1]

\* Animated's interpolate with a two-point inputRange and outputRange, as
\* render calls it: linear, and extended beyond the input range
interpolate(value, inputRange, outputRange) ==
    Add(Mul(Div(Sub(value, inputRange[1]), Sub(inputRange[2], inputRange[1])),
            Sub(outputRange[2], outputRange[1])),
        outputRange[1])

\* an output range of the thumbs that is the same in both layout directions
ThumbOutputRangeUnmirrored(rtl, containerWidth, rightPadding) ==
    << R(0), Sub(containerWidth, rightPadding) >>

\* render: the outputRange of interpolatedThumbValues
ThumbOutputRange(rtl, containerWidth, rightPadding) ==
    IF rtl
    THEN << R(0), Neg(Sub(containerWidth, rightPadding)) >>
    ELSE << R(0), Sub(containerWidth, rightPadding) >>

\* render: an element of interpolatedThumbValues, the offset of the thumb
\* that holds value
interpolatedThumbValue(p, rtl, containerWidth, rightPadding, value) ==
    interpolate(value, << p.minimumValue, p.maximumValue >>,
                ThumbOutputRange(rtl, containerWidth, rightPadding))

\* render: rightPadding, with no trackRightPadding configured
RightPadding == R(thumbSize.width)

\* render: interpolatedTrackValues, the offset of each thumb along the track
interpolatedTrackValues ==
    [k \in 1..Len(values) |->
        interpolate(values[k], << props.minimumValue, props.maximumValue >>,
                    << R(0), Sub(R(containerSize.width), RightPadding) >>)]

\* render: isCrossed, looked at only when crossover is allowed
IsCrossed == props.allowCrossover /\ Gt(values[1], values[2])

\* render: dualSliderRangeTrackStyle, the filled segment between the two
\* thumbs (rangeTrackTintColor is not transparent); none without dualSlider
\* or with fewer than two thumbs
dualSliderRangeTrackStyle ==
    IF props.dualSlider /\ Len(interpolatedTrackValues) >= 2
    THEN LET pos0 == interpolatedTrackValues[1]
             pos1 == interpolatedTrackValues[2]
             leftPos == IF IsCrossed THEN pos1 ELSE pos0
             rightPos == IF IsCrossed THEN pos0 ELSE pos1
         IN  [ rendered |-> TRUE,
               left     |-> Add(leftPos, Div(R(thumbSize.width), R(2))),
               width    |-> Add(Mul(leftPos, R(-1)), rightPos) ]
    ELSE [ rendered |-> FALSE, left |-> R(0), width |-> R(0) ]

-----------------------------------------------------------------------------
(* The state machine *)

Next ==
    \/ \E e \in TouchEvents : HandleStartShouldSetPanResponder(e)
    \/ HandlePanResponderGrant
    \/ \E gestureState \in GestureStates : HandlePanResponderMove(gestureState)
    \/ \E gestureState \in GestureStates : Release(gestureState)
    \/ \E gestureState \in GestureStates : Terminate(gestureState)
    \/ \E value \in ValueInputsFor(props.dualSlider) : ComponentDidUpdate(value)
    \/ \E size \in ContainerSizes : MeasureContainer(size)
    \/ \E size \in ThumbSizes : MeasureThumb(size)

Spec == Init /\ [][Next]_vars

\* The slider with its track measured as well and with animated transitions
\* configured or not: a continuous, enabled slider with a clickable track.
InitExtended ==
    \E dualSlider \in BOOLEAN, allowCrossover \in BOOLEAN, animateTransitions \in BOOLEAN :
        \E value \in ValueInputsFor(dualSlider) :
            Constructed(Props(0, 100, 0, FALSE, dualSlider, allowCrossover, TRUE, FALSE,
                              NoTouchSize, animateTransitions, TrackMarks, value),
                        FALSE)

NextExtended ==
    \/ Next
    \/ \E size \in TrackSizes : MeasureTrack(size)

SpecExtended == InitExtended /\ [][NextExtended]_vars

\* The slider whose owning application changes its track marks as well: an
\* enabled slider with a clickable track, continuous or stepped.
InitMarks ==
    \E step \in {0, 20}, dualSlider \in BOOLEAN, allowCrossover \in BOOLEAN :
        \E value \in ValueInputsFor(dualSlider) :
            Constructed(Props(0, 100, step, FALSE, dualSlider, allowCrossover, TRUE, FALSE,
                              NoTouchSize, FALSE, TrackMarks, value),
                        FALSE)

NextMarks ==
    \/ Next
    \/ \E trackMarks \in TrackMarkInputs : TrackMarksDidUpdate(trackMarks)

SpecMarks == InitMarks /\ [][NextMarks]_vars

\* The slider in either orientation and layout direction, with a thumbTouchSize
\* configured or not: a continuous, enabled slider whose track is not
\* clickable, one thumb or two that may cross, in a container as high as the
\* thumb.
LayoutContainerSizes == { [width |-> 120, height |-> 20] }

LayoutTouchSizes == { NoTouchSize, TouchSize(40, 40) }

InitLayout ==
    \E vertical \in BOOLEAN, rtl \in BOOLEAN, thumbTouchSize \in LayoutTouchSizes,
       dualSlider \in BOOLEAN :
        \E value \in ValueInputsFor(dualSlider) :
            Constructed(Props(0, 100, 0, vertical, dualSlider, TRUE, FALSE, FALSE,
                              thumbTouchSize, FALSE, TrackMarks, value),
                        rtl)

NextLayout ==
    \/ \E e \in TouchEvents : HandleStartShouldSetPanResponder(e)
    \/ HandlePanResponderGrant
    \/ \E gestureState \in GestureStates : HandlePanResponderMove(gestureState)
    \/ \E gestureState \in GestureStates : Release(gestureState)
    \/ \E gestureState \in GestureStates : Terminate(gestureState)
    \/ \E value \in ValueInputsFor(props.dualSlider) : ComponentDidUpdate(value)
    \/ \E size \in LayoutContainerSizes : MeasureContainer(size)
    \/ \E size \in ThumbSizes : MeasureThumb(size)

SpecLayout == InitLayout /\ [][NextLayout]_vars

-----------------------------------------------------------------------------
(* The functions of the module applied on their own, to arguments drawn from *)
(* the sets below; the slider is left as constructed.                        *)

\* (minimumValue, maximumValue) of the configurations
Ranges == { <<0, 100>>, <<0, 10>>, <<10, 20>>, <<-10, 10>> }

\* raw values: absent, numbers (0 among them) and arrays of up to three numbers
RawValues ==
    { Absent, Scalar(0), Scalar(7), Scalar(50), Scalar(150), Scalar(-20),
      Arr(<< >>), Arr(<<0>>), Arr(<<50>>), Arr(<<7, 3>>), Arr(<<3, 7>>),
      Arr(<<150, -20>>), Arr(<<7, 3, 5>>), Arr(<<15, 12, 30>>) }

\* the numbers a store or a new value array holds
NumberArrays ==
    { <<R(0)>>, <<R(50)>>, <<R(0), R(100)>>, <<R(40), R(60)>>, <<R(60), R(40)>>,
      <<R(1), R(2), R(3)>> }

\* ratios of the track a drag reaches, beyond its ends too
Ratios == { Q(-1, 5), R(0), Q(23, 100), Q(1, 4), Q(1, 2), R(1), Q(3, 2) }

Steps == { 5, 20 }

\* the configuration normalizeValue and _getValue read
Config(range, step, dualSlider, allowCrossover) ==
    Props(range[1], range[2], step, FALSE, dualSlider, allowCrossover, TRUE, FALSE,
          NoTouchSize, FALSE, Arr(<< >>), Absent)

Applied(name, args, result) == [name |-> name, args |-> args, result |-> result]

\* everything but the function applied
slider == << props, isRTL, allMeasured, containerSize, thumbSize, values, trackMarksValues,
            activeThumbIndex, previousLeft, instContainerSize, instThumbSize,
            instTrackSize, phase, touch, hitIndex, emitted, order, last, animated >>

\* normalizeValue on a configuration and a raw value; after is the raw value
\* once it has returned
ApplyNormalizeValue(range, dualSlider, allowCrossover, value) ==
    /\ applied' = [ name   |-> "normalizeValue",
                    args   |-> <<range, dualSlider, allowCrossover, value>>,
                    result |-> normalizeValue(Config(range, 0, dualSlider, allowCrossover),
                                              value),
                    after  |-> valueAfterNormalize(Config(range, 0, dualSlider, allowCrossover),
                                                   value) ]
    /\ UNCHANGED slider

\* updateValues on the cells of a store and a new array of numbers
ApplyUpdateValues(vals, newVals) ==
    /\ applied' = Applied("updateValues", <<Cells(vals), Numbers(newVals)>>,
                          updateValues(Cells(vals), Numbers(newVals)))
    /\ UNCHANGED slider

\* the stepped value of a ratio, for a thumb whose range starts lower steps
\* above the minimum and ends upper steps below the maximum
ApplySteppedValue(range, step, ratio, lower, upper) ==
    LET p == Config(range, step, FALSE, TRUE)
        minValue == Add(p.minimumValue, Mul(R(lower), p.step))
        maxValue == Sub(p.maximumValue, Mul(R(upper), p.step))
    IN  /\ applied' = Applied("SteppedValue", <<range, step, ratio, minValue, maxValue>>,
                              SteppedValue(p, ratio, minValue, maxValue))
        /\ UNCHANGED slider

\* containerSize.width and rightPadding (trackRightPadding ?? thumbSize.width)
\* as render reads them
ContainerWidths == { 0, 120, 300 }

RightPaddings == { 0, 20 }

\* values of a range: its ends, one above the lower end, and its middle
ValuesWithin(range) ==
    { range[1], range[1] + 1, (range[1] + range[2]) \div 2, range[2] }

\* the offset render gives a thumb, in either layout direction
ApplyInterpolatedThumbValue(range, rtl, containerWidth, rightPadding, value) ==
    /\ applied' = Applied("interpolatedThumbValue",
                          <<range, rtl, containerWidth, rightPadding, value>>,
                          interpolatedThumbValue(Config(range, 0, FALSE, TRUE), rtl,
                              R(containerWidth), R(rightPadding), R(value)))
    /\ UNCHANGED slider

InitFunctions ==
    Constructed(Props(0, 100, 0, FALSE, FALSE, TRUE, TRUE, FALSE, NoTouchSize, FALSE,
                      Arr(<< >>), Scalar(0)),
                FALSE)

NextFunctions ==
    \/ \E range \in Ranges, dualSlider \in BOOLEAN, allowCrossover \in BOOLEAN,
          value \in RawValues :
            ApplyNormalizeValue(range, dualSlider, allowCrossover, value)
    \/ \E vals \in NumberArrays, newVals \in NumberArrays :
            ApplyUpdateValues(vals, newVals)
    \/ \E range \in Ranges, step \in Steps, ratio \in Ratios,
          lower \in {0, 1}, upper \in {0, 1} :
            ApplySteppedValue(range, step, ratio, lower, upper)
    \/ \E range \in Ranges, rtl \in BOOLEAN, containerWidth \in ContainerWidths,
          rightPadding \in RightPaddings :
            \E value \in ValuesWithin(range) :
                ApplyInterpolatedThumbValue(range, rtl, containerWidth, rightPadding, value)

SpecFunctions == InitFunctions /\ [][NextFunctions]_vars

\* no function applied on its own gives an inexact number
AppliedExact ==
    /\ applied.name = "normalizeValue"
       => \A k \in 1..Len(applied.result) : applied.result[k] # Inexact
    /\ applied.name = "SteppedValue" => applied.result # Inexact
    /\ applied.name = "interpolatedThumbValue" => applied.result # Inexact

\* no number held by the state is the inexact result of a product or quotient
ArithmeticExact ==
    /\ previousLeft # Inexact
    /\ \A k \in 1..Len(values) : values[k] # Inexact

-----------------------------------------------------------------------------
(* Properties *)

\* a step of _handlePanResponderEnd: the gesture's release or termination
EndStep == phase = "active" /\ phase' = "idle"

\* C1: in every reachable state every stored thumb value lies between
\* minimumValue and maximumValue, both included.
C1_ValuesWithinRange ==
    \A k \in 1..Len(values) :
        Le(props.minimumValue, values[k]) /\ Le(values[k], props.maximumValue)

\* C2: the value store holds exactly one thumb value when dualSlider is false
\* and exactly two when it is true, whatever the value prop was.
C2_StoreLength == Len(values) = IF props.dualSlider THEN 2 ELSE 1

\* C3: with two thumbs and allowCrossover false, a drag move or release on an
\* enabled slider leaves the active thumb separated from the other one by the
\* buffer: thumb 1 at or above thumb 0 plus the buffer, thumb 0 at or below
\* thumb 1 minus the buffer.
C3_SeparationKept ==
    [][ ( /\ phase = "active"
          /\ last' \in {"move", "end"}
          /\ ~props.disabled
          /\ ~props.allowCrossover
          /\ Len(values) = 2
          /\ Len(values') = 2 )
        => IF activeThumbIndex = 1
           THEN Ge(values'[2], Add(values'[1], Buffer))
           ELSE Le(values'[1], Sub(values'[2], Buffer)) ]_vars

\* C4: every onValueChange notification carries the values the store holds
\* when it is made, the new value written, and the index the hit test chose
\* for the gesture, also when the value prop changes during the gesture.
C4_ChangeCarriesStoreAndHitIndex ==
    [][ \A k \in 1..Len(emitted') :
            emitted'[k].name = "onValueChange"
            => emitted'[k].values = values' /\ emitted'[k].index = hitIndex ]_vars

\* C5: within a gesture onSlidingStart comes before every onValueChange,
\* onSlidingComplete after the last onValueChange, and nothing after
\* onSlidingComplete.
C5_NotificationsInOrder == order # "broken"

\* a gesture that ended with a value change followed by the completion
C5_Witness ==
    /\ order = "completed"
    /\ Len(emitted) = 2
    /\ emitted[1].name = "onValueChange"
    /\ emitted[2].name = "onSlidingComplete"

\* C6 as stated: the end of a gesture on an enabled slider makes both an
\* onValueChange and an onSlidingComplete notification, with the same
\* arguments, in every configuration.
C6_ChangeAndCompleteOnEnd ==
    [][ (EndStep /\ ~props.disabled)
        => /\ Len(emitted') = 2
           /\ emitted'[1].name = "onValueChange"
           /\ emitted'[2].name = "onSlidingComplete"
           /\ emitted'[1].values = emitted'[2].values
           /\ emitted'[1].index = emitted'[2].index ]_vars

\* C6, amended: the end of a gesture on an enabled slider always makes an
\* onSlidingComplete notification carrying the values of the store, as its
\* last notification; an onValueChange with the same arguments comes before it
\* exactly when trackClickable is true.
C6_CompleteOnEndChangeWhenClickable ==
    [][ (EndStep /\ ~props.disabled)
        => LET n == Len(emitted')
           IN  /\ n = IF props.trackClickable THEN 2 ELSE 1
               /\ emitted'[n].name = "onSlidingComplete"
               /\ emitted'[n].values = values'
               /\ props.trackClickable
                  => emitted'[1] = [emitted'[n] EXCEPT !.name = "onValueChange"] ]_vars

\* a gesture on an enabled slider whose track is not clickable has ended with
\* the completion alone
C6_Witness ==
    /\ last = "end"
    /\ ~props.disabled
    /\ ~props.trackClickable
    /\ Len(emitted) = 1
    /\ emitted[1].name = "onSlidingComplete"

C8_DisabledKeepsValues ==
    [][ props.disabled
        => /\ last' \in {"hit", "miss", "grant", "move", "end"} => values' = values
           /\ last' = "update" => values' = normalizeValue(props', props'.value) ]_vars

\* a disabled slider whose value prop changed during a gesture on thumb 1
C8_Witness ==
    /\ props.disabled
    /\ phase = "active"
    /\ last = "update"
    /\ values = normalizeValue(props, props.value)
    /\ activeThumbIndex = 1

\* C9: on a disabled slider the grant, move, release and termination
\* handlers make no notification.
C9_DisabledEmitsNothing == props.disabled => emitted = << >>

\* C10: no gesture writes NaN or an infinity into the value store: a move or
\* release before the sizes are measured divides by no track length that is
\* not positive.
C10_StoreFinite == \A k \in 1..Len(values) : IsFinite(values[k])

\* C11: allMeasured is false, and every positioned element has opacity 0,
\* as long as the container size or the thumb size has not been reported; it
\* is true once both have been, in whichever order; a report of the track
\* size alone does not make it true; and once true it stays true.
C11_MeasuredWhenBothReported ==
    /\ ~allMeasured
    /\ [][ /\ allMeasured' = (instContainerSize'.known /\ instThumbSize'.known)
           /\ ~allMeasured' => valueVisibleStyle'.opacity = 0
           /\ allMeasured => allMeasured' ]_vars

\* the thumb and the track have reported their sizes, the container has not
C11_Witness ==
    /\ instThumbSize.known
    /\ instTrackSize.known
    /\ ~instContainerSize.known
    /\ ~allMeasured
    /\ valueVisibleStyle.opacity = 0

\* C12: updateValues on a store and a new array of the same length returns,
\* at every index, the cell object the store held there, holding the new
\* value of that index; with different lengths no cell of the store is kept.
C12_SameLengthKeepsCells ==
    applied.name = "updateValues"
    => LET cells == applied.args[1]
           numbers == applied.args[2]
           result == applied.result
       IN  /\ Len(result) = Len(numbers)
           /\ \A k \in 1..Len(result) : result[k].value = numbers[k].value
           /\ IF Len(cells) = Len(numbers)
              THEN \A k \in 1..Len(result) : result[k].object = cells[k].object
              ELSE \A k \in 1..Len(result), j \in 1..Len(cells) :
                       result[k].object # cells[j].object

\* a store of two cells reconciled against two numbers they did not hold
C12_Witness ==
    /\ applied.name = "updateValues"
    /\ Len(applied.args[1]) = 2
    /\ Len(applied.args[2]) = 2
    /\ \A k \in 1..2 : applied.args[1][k].value # applied.args[2][k].value
    /\ applied.result = << Cell(Held(1), applied.args[2][1].value),
                          Cell(Held(2), applied.args[2][2].value) >>

\* C13: with animateTransitions set, a change of the value prop that gives a
\* thumb a value other than the one it held before starts an animation of
\* that thumb's cell; a thumb whose value is unchanged is written at once.
C13_ChangedValueAnimated ==
    [][ (last' = "update" /\ props.animateTransitions)
        => \A i \in 0..(Len(values') - 1) :
               LET newValue == normalizeValue(props', props'.value)[i + 1]
               IN  IF HasCell(i) /\ StrictNotEqual(newValue, values[i + 1])
                   THEN i \in animated'
                   ELSE i \notin animated' ]_vars

\* the number v brought into the range (minimumValue, maximumValue)
Clamped(v, range) ==
    IF v < R(range[1]) THEN R(range[1]) ELSE IF v > R(range[2]) THEN R(range[2]) ELSE v

\* normalizeValue was applied; its arguments and result
Normalized == applied.name = "normalizeValue"

NormalizedRange == applied.args[1]

NormalizedDual == applied.args[2]

NormalizedCrossover == applied.args[3]

NormalizedInput == applied.args[4]

\* C14: every element normalizeValue returns lies between minimumValue and
\* maximumValue, for every configuration with minimumValue <= maximumValue
\* and every raw value, absent, empty, 0 or not.
C14_NormalizedWithinRange ==
    Normalized
    => \A k \in 1..Len(applied.result) :
           /\ Le(R(NormalizedRange[1]), applied.result[k])
           /\ Le(applied.result[k], R(NormalizedRange[2]))

\* C15: for a scalar v, 0 included, in single and in dual mode, normalizeValue
\* returns the one-element array of v clamped to the range.
C15_ScalarClamped ==
    (Normalized /\ NormalizedInput.kind = "scalar")
    => applied.result = << Clamped(NormalizedInput.elems[1], NormalizedRange) >>

\* C16: in dual mode an array of one element v normalizes to the window
\* [max(c - range / 10, minimumValue), min(c + range / 10, maximumValue)]
\* around c, the clamped v, with range = maximumValue - minimumValue.
C16_DualWindow ==
    (Normalized /\ NormalizedDual /\ NormalizedInput.kind = "array"
         /\ Len(NormalizedInput.elems) = 1)
    => LET c == Clamped(NormalizedInput.elems[1], NormalizedRange)
           tenth == (R(NormalizedRange[2]) - R(NormalizedRange[1])) \div 10
       IN  applied.result = << Clamped(c - tenth, NormalizedRange),
                              Clamped(c + tenth, NormalizedRange) >>

\* min 0, max 100, dual mode, input [50]: [40, 60]
C16_Witness ==
    /\ Normalized
    /\ NormalizedRange = <<0, 100>>
    /\ NormalizedDual
    /\ NormalizedInput = Arr(<<50>>)
    /\ applied.result = <<R(40), R(60)>>

\* C17: in dual mode with allowCrossover false an array of two or more
\* elements normalizes to its first two elements, clamped, in ascending order.
C17_DualPairAscending ==
    (Normalized /\ NormalizedDual /\ ~NormalizedCrossover
         /\ NormalizedInput.kind = "array" /\ Len(NormalizedInput.elems) >= 2)
    => LET a == Clamped(NormalizedInput.elems[1], NormalizedRange)
           b == Clamped(NormalizedInput.elems[2], NormalizedRange)
       IN  applied.result = IF a > b THEN <<b, a>> ELSE <<a, b>>

\* min 0, max 10, dual mode, no crossover, input [7, 3]: [3, 7]
C17_Witness ==
    /\ Normalized
    /\ NormalizedRange = <<0, 10>>
    /\ NormalizedDual
    /\ ~NormalizedCrossover
    /\ NormalizedInput = Arr(<<7, 3>>)
    /\ applied.result = <<R(3), R(7)>>

\* C18: in dual mode with allowCrossover true an array of two or more
\* elements normalizes to its first two elements, clamped, in the order given.
C18_DualPairAsGiven ==
    (Normalized /\ NormalizedDual /\ NormalizedCrossover
         /\ NormalizedInput.kind = "array" /\ Len(NormalizedInput.elems) >= 2)
    => applied.result = << Clamped(NormalizedInput.elems[1], NormalizedRange),
                           Clamped(NormalizedInput.elems[2], NormalizedRange) >>

\* min 0, max 10, dual mode, crossover allowed, input [7, 3]: [7, 3]
C18_Witness ==
    /\ Normalized
    /\ NormalizedRange = <<0, 10>>
    /\ NormalizedDual
    /\ NormalizedCrossover
    /\ NormalizedInput = Arr(<<7, 3>>)
    /\ applied.result = <<R(7), R(3)>>

\* the stepped value was computed; its arguments
Stepped == applied.name = "SteppedValue"

SteppedRange == applied.args[1]

SteppedStep == applied.args[2]

SteppedRatio == applied.args[3]

\* the result is minimumValue plus a whole number n of steps, n a nearest
\* integer to (ratio * (maximumValue - minimumValue)) / step, brought into
\* the thumb's range [minValue, maxValue]
SteppedToNearest ==
    LET low == R(SteppedRange[1])
        step == R(SteppedStep)
        scaled == (SteppedRatio * (R(SteppedRange[2]) - low)) \div Scale
        minValue == applied.args[4]
        maxValue == applied.args[5]
        InRange(v) == IF v > maxValue
                      THEN (IF maxValue < minValue THEN minValue ELSE maxValue)
                      ELSE IF v < minValue THEN minValue ELSE v
    IN  \E n \in { scaled \div step, (scaled \div step) + 1 } :
            /\ 2 * (scaled - n * step) <= step
            /\ 2 * (n * step - scaled) <= step
            /\ applied.result = InRange(low + n * step)

\* step 5, min 0, max 100, ratio 0.23, the whole range allowed
SteppedExample ==
    /\ Stepped
    /\ SteppedRange = <<0, 100>>
    /\ SteppedStep = 5
    /\ SteppedRatio = Q(23, 100)
    /\ applied.args[4] = R(0)
    /\ applied.args[5] = R(100)

\* C19 as stated: with a step the value of a drag is minimumValue plus the
\* step times the nearest integer to (ratio * range) / step, clamped to the
\* thumb's range; step 5, min 0, max 100 and ratio 0.23 give 20.
C19_SteppedExampleTwenty ==
    Stepped => SteppedToNearest /\ (SteppedExample => applied.result = R(20))

\* C19, amended: with a step the value of a drag is minimumValue plus the
\* step times the nearest integer to (ratio * range) / step, clamped to the
\* thumb's range; step 5, min 0, max 100 and ratio 0.23 give 25, the multiple
\* of 5 nearest to 23.
C19_SteppedToNearest ==
    Stepped => SteppedToNearest /\ (SteppedExample => applied.result = R(25))

\* the example was computed, and gave 25
C19_Witness == SteppedExample /\ applied.result = R(25)

\* the thumbs whose touch rectangle holds the point of a touch
ThumbsTouched(e) ==
    { i \in 0..(Len(values) - 1) :
        LET rect == _getThumbTouchRect(i)
        IN  /\ R(e.x) >= rect.x
            /\ R(e.x) <= rect.x + rect.width
            /\ R(e.y) >= rect.y
            /\ R(e.y) <= rect.y + rect.height }

\* C20: a touch start inside the touch rectangle of at least one thumb is
\* accepted as a hit, and the active thumb becomes the lowest-indexed thumb
\* whose rectangle holds the point, whatever trackClickable is.  (Only the
\* touch start leaves "hit" or "miss" in last.)
C20_LowestTouchedThumbHit ==
    [][last' \in {"hit", "miss"} =>
         \A e \in TouchEvents :
           (HandleStartShouldSetPanResponder(e) /\ ThumbsTouched(e) # {})
              => /\ last' = "hit"
                 /\ phase' = "start"
                 /\ activeThumbIndex' \in ThumbsTouched(e)
                 /\ \A i \in ThumbsTouched(e) : activeThumbIndex' <= i]_vars

\* a touch inside the rectangles of both thumbs of a track that is not
\* clickable was accepted, and thumb 0 is the active one
C20_Witness ==
    /\ phase = "start"
    /\ last = "hit"
    /\ ~props.trackClickable
    /\ Cardinality(ThumbsTouched(touch)) = 2
    /\ activeThumbIndex = 0

\* the horizontal distance from the point of a touch to the touch rectangle
\* of thumb i: 0 when the point's x is within the rectangle's extent
HorizontalDistance(e, i) ==
    LET rect == _getThumbTouchRect(i)
    IN  IF R(e.x) < rect.x THEN rect.x - R(e.x)
        ELSE IF R(e.x) > rect.x + rect.width THEN R(e.x) - (rect.x + rect.width)
        ELSE 0

\* the thumb a touch on the track selects: the only one, or the one at the
\* smaller horizontal distance, the lower index when the distances are equal
NearestThumb(e) ==
    IF Len(values) = 1 THEN 0
    ELSE CHOOSE i \in 0..(Len(values) - 1) :
            \A j \in 0..(Len(values) - 1) :
                \/ HorizontalDistance(e, i) < HorizontalDistance(e, j)
                \/ HorizontalDistance(e, i) = HorizontalDistance(e, j) /\ i <= j

\* C21: a touch start inside no thumb's touch rectangle, on a clickable
\* track, is accepted as a hit, and the active thumb becomes thumb 0 when
\* there is one thumb and otherwise the thumb whose touch rectangle is at the
\* smaller horizontal distance from the point, the lower index when the
\* distances are equal.
C21_NearestThumbOnTrackClick ==
    [][last' \in {"hit", "miss"} =>
         \A e \in TouchEvents :
           (HandleStartShouldSetPanResponder(e) /\ props.trackClickable
              /\ ThumbsTouched(e) = {})
              => /\ last' = "hit"
                 /\ phase' = "start"
                 /\ activeThumbIndex' = NearestThumb(e)]_vars

\* a touch on a clickable track at the same positive distance from the touch
\* rectangles of both thumbs was accepted, and thumb 0 is the active one
C21_Witness ==
    /\ phase = "start"
    /\ last = "hit"
    /\ props.trackClickable
    /\ Len(values) = 2
    /\ ThumbsTouched(touch) = {}
    /\ HorizontalDistance(touch, 0) > 0
    /\ HorizontalDistance(touch, 0) = HorizontalDistance(touch, 1)
    /\ activeThumbIndex = 0

\* C22: a touch start inside no thumb's touch rectangle, on a track that is
\* not clickable, is not accepted: no gesture starts, and the active thumb
\* index and every thumb value stay as they were.
C22_MissLeavesIndexAndValues ==
    [][last' \in {"hit", "miss"} =>
         \A e \in TouchEvents :
           (HandleStartShouldSetPanResponder(e) /\ ~props.trackClickable
              /\ ThumbsTouched(e) = {})
              => /\ last' = "miss"
                 /\ phase' = "idle"
                 /\ activeThumbIndex' = activeThumbIndex
                 /\ values' = values]_vars

\* a touch on a track that is not clickable missed both thumbs, and thumb 1,
\* active since an earlier gesture, still is
C22_Witness ==
    /\ last = "miss"
    /\ phase = "idle"
    /\ ~props.trackClickable
    /\ Len(values) = 2
    /\ activeThumbIndex = 1

\* the offset of a thumb was computed; its arguments
Projected == applied.name = "interpolatedThumbValue"

ProjectedRange == applied.args[1]

ProjectedRTL == applied.args[2]

\* trackLength - rightPadding
ProjectedLength == applied.args[3] - applied.args[4]

ProjectedValue == applied.args[5]

\* the offset of the same value in the other layout direction
Mirrored ==
    interpolatedThumbValue(Config(ProjectedRange, 0, FALSE, TRUE), ~ProjectedRTL,
                           R(applied.args[3]), R(applied.args[4]), R(ProjectedValue))

\* C23: for every value within [minimumValue, maximumValue] the offset of the
\* thumb in right-to-left layout is the negation of its offset in
\* left-to-right layout: minimumValue is at 0 in both, maximumValue at
\* trackLength - rightPadding left-to-right and at its negation right-to-left,
\* and the values between them are interpolated linearly.
C23_MirroredProjection ==
    Projected =>
        LET min == ProjectedRange[1]
            max == ProjectedRange[2]
            sign == IF ProjectedRTL THEN -1 ELSE 1
        IN  /\ applied.result + Mirrored = 0
            /\ ProjectedValue = min => applied.result = 0
            /\ ProjectedValue = max => applied.result = sign * R(ProjectedLength)
            /\ applied.result * (max - min)
                 = sign * R((ProjectedValue - min) * ProjectedLength)

\* the maximum of [0, 100] was projected right-to-left on a track of 120 with
\* a padding of 20, to -100
C23_Witness ==
    /\ Projected
    /\ ProjectedRTL
    /\ ProjectedRange = <<0, 100>>
    /\ ProjectedValue = 100
    /\ applied.args[3] = 120
    /\ applied.args[4] = 20
    /\ applied.result = R(-100)

\* normalizeValue was given no value or an empty array
NormalizedNothing == Normalized /\ NormalizedInput \in { Absent, Arr(<< >>) }

\* C24: for an absent value and for an empty array normalizeValue returns [0]
\* in single mode and [minimumValue, maximumValue] in dual mode.
C24_EmptyValue ==
    NormalizedNothing
    => applied.result = IF NormalizedDual
                        THEN << R(NormalizedRange[1]), R(NormalizedRange[2]) >>
                        ELSE << R(0) >>

\* an empty array was normalized in dual mode over [10, 20], to [10, 20]
C24_Witness ==
    /\ NormalizedNothing
    /\ NormalizedDual
    /\ NormalizedInput = Arr(<< >>)
    /\ NormalizedRange = <<10, 20>>
    /\ applied.result = << R(10), R(20) >>

\* the number of elements of s that equal x
Count(s, x) == Cardinality({ k \in 1..Len(s) : s[k] = x })

\* normalizeValue was given an array with elements, in single mode
NormalizedArray ==
    Normalized /\ ~NormalizedDual /\ NormalizedInput.kind = "array"
               /\ Len(NormalizedInput.elems) > 0

\* C25: in single mode an array (one with elements: C24 has the empty one)
\* normalizes to its elements, each clamped to [minimumValue, maximumValue],
\* in ascending order, and the array passed is left as it was.
C25_ArrayClampedSorted ==
    NormalizedArray
    => LET elems == NormalizedInput.elems
           clamped == [k \in 1..Len(elems) |-> Clamped(elems[k], NormalizedRange)]
           result == applied.result
       IN  /\ Len(result) = Len(elems)
           /\ \A k \in 1..Len(elems) : Count(result, clamped[k]) = Count(clamped, clamped[k])
           /\ \A k \in 1..(Len(result) - 1) : result[k] <= result[k + 1]
           /\ applied.after = NormalizedInput

\* [15, 12, 30] was normalized in single mode over [10, 20], to [12, 15, 20],
\* and still is [15, 12, 30]
C25_Witness ==
    /\ NormalizedArray
    /\ NormalizedRange = <<10, 20>>
    /\ NormalizedInput = Arr(<<15, 12, 30>>)
    /\ applied.result = << R(12), R(15), R(20) >>
    /\ applied.after = Arr(<<15, 12, 30>>)

\* C26: once componentDidUpdate has processed a changed value prop the store
\* has as many cells as normalizeValue returns elements for the new value,
\* and cell i holds element i, whether the number of cells stayed the same
\* or the store was rebuilt from the new values.
C26_UpdateStoresNormalized ==
    [][last' = "update" =>
         LET newValues == normalizeValue(props', props'.value)
         IN  /\ Len(values') = Len(newValues)
             /\ \A k \in 1..Len(newValues) : values'[k] = newValues[k]]_vars

\* the value prop changed from two values to the one value 50 during a
\* gesture on thumb 1, and the store was rebuilt with one cell
C26_Witness ==
    /\ last = "update"
    /\ phase = "active"
    /\ activeThumbIndex = 1
    /\ props.value = Scalar(50)
    /\ values = << R(50) >>

\* a step of _handlePanResponderMove or _handlePanResponderEnd
GestureWrite == phase = "active" /\ last' \in {"move", "end"}

\* C27: a drag move or release changes at most the cell of the active thumb:
\* the value of every other thumb, one an update of the value prop set
\* earlier in the gesture included, and the value of every track mark are
\* what they were.
C27_OnlyActiveThumbWritten ==
    [][GestureWrite =>
         /\ Len(values') >= Len(values)
         /\ \A k \in 1..Len(values) :
                k # activeThumbIndex + 1 => values'[k] = values[k]
         /\ trackMarksValues' = trackMarksValues]_vars

\* a move wrote thumb 1 of a slider whose two values and whose track marks
\* were changed by the owning application: thumb 0 holds the value the update
\* gave it, thumb 1 does not, and the track mark holds 50
C27_Witness ==
    /\ last = "move"
    /\ activeThumbIndex = 1
    /\ ~props.dualSlider
    /\ props.value = Arr(<<100, 0>>)
    /\ props.trackMarks = Arr(<<50>>)
    /\ Len(values) = 2
    /\ values[1] = R(0)
    /\ values[2] # R(100)
    /\ trackMarksValues = << R(50) >>

\* the offset of the thumb at index i along the track: its value projected
\* from [minimumValue, maximumValue] onto [0, trackLength - rightPadding]
Projection(i) ==
    ((values[i + 1] - props.minimumValue) * (containerSize.width - thumbSize.width))
        \div ((props.maximumValue - props.minimumValue) \div Scale)

\* C28: in dual mode, in every reachable state, there are two thumbs and the
\* filled range segment spans between their projections: its left edge is at
\* the smaller projection (plus half a thumb) and its width, their distance,
\* is not negative; the roles of the thumbs are swapped exactly when
\* allowCrossover is set and value[0] > value[1].
C28_RangeSegmentBetweenThumbs ==
    props.dualSlider
    => LET style == dualSliderRangeTrackStyle
           smaller == IF Projection(0) <= Projection(1) THEN Projection(0) ELSE Projection(1)
           larger == IF Projection(0) <= Projection(1) THEN Projection(1) ELSE Projection(0)
       IN  /\ Len(values) = 2
           /\ \A k \in 1..2 : IsFinite(values[k])
           /\ style.rendered
           /\ style.left = smaller + R(thumbSize.width) \div 2
           /\ style.width = larger - smaller
           /\ style.width >= 0
           /\ IsCrossed <=> (props.allowCrossover /\ values[1] > values[2])

\* the larger of two sizes in one dimension
Larger(a, b) == IF a >= b THEN a ELSE b

\* the configured thumbTouchSize, 0 in both dimensions when there is none
ConfiguredTouchSize ==
    IF props.thumbTouchSize.present
    THEN [width |-> props.thumbTouchSize.width, height |-> props.thumbTouchSize.height]
    ELSE [width |-> 0, height |-> 0]

\* C29: once the sizes are measured the touch-overflow size is, in each
\* dimension, at least the larger of the configured thumbTouchSize and the
\* size of the thumb.
C29_TouchOverflowCoversThumb ==
    allMeasured
    => /\ _getTouchOverflowSize.width
            >= R(Larger(ConfiguredTouchSize.width, thumbSize.width))
       /\ _getTouchOverflowSize.height
            >= R(Larger(ConfiguredTouchSize.height, thumbSize.height))

\* C30: with allowCrossover false and two thumbs, value[0] <= value[1] in
\* every reachable state, whatever updates of the value prop and drags of
\* either thumb came before.
C30_ThumbsOrdered ==
    (~props.allowCrossover /\ Len(values) = 2) => Le(values[1], values[2])

\* C31: whenever a move or release of a gesture writes to the value store,
\* the active thumb index is the index of a cell of the store, also when an
\* update of the value prop changed the number of cells between the hit test
\* and the write; the write adds no cell.
C31_GestureWritesExistingCell ==
    [][(GestureWrite /\ ~props.disabled) =>
         /\ HasCell(activeThumbIndex)
         /\ Len(values') = Len(values)]_vars

\* no movement since the touch start
NoMovement == [dx |-> 0, dy |-> 0]

\* C32: with trackClickable false, step 0 and the sizes measured with a
\* positive track length, a thumb that is pressed and released with no
\* movement holds the value it held: in horizontal and in vertical
\* orientation, left-to-right and right-to-left, with a thumbTouchSize
\* configured or not.
C32_PressReleaseKeepsValue ==
    [][( /\ last = "grant"
         /\ ~props.trackClickable
         /\ props.step = 0
         /\ allMeasured
         /\ containerSize.width > thumbSize.width
         /\ HasCell(activeThumbIndex)
         /\ Release(NoMovement) )
       => values'[activeThumbIndex + 1] = values[activeThumbIndex + 1]]_vars

=============================================================================
